---- MODULE Spec2Model ----
(***************************************************************************)
(* powdr-lsp: the span locator (analyzer.rs), the symbol extractor         *)
(* (analyzer.rs), the semantic index (symbol.rs) and the project cache     *)
(* behind its readers-writer lock (main.rs).                               *)
(*                                                                         *)
(* Texts are sequences of one-character strings, offsets are 0-based byte  *)
(* offsets as in the Rust code, spans are half-open [start, end).          *)
(* Option<T> is modelled as a sequence: <<>> is None, <<x>> is Some(x).    *)
(***************************************************************************)
EXTENDS Integers, Sequences, FiniteSets, TLC

\* ------------------------------------------------------------------------
\* Bounds of the model
\* ------------------------------------------------------------------------

\* A text of the locator/extractor specification is at most this many pieces
MaxPieces == 4

\* ------------------------------------------------------------------------
\* Strings
\* ------------------------------------------------------------------------

NoneOpt == <<>>
Some(x) == <<x>>

Min(S) == CHOOSE x \in S : \A y \in S : x <= y
Max(S) == CHOOSE x \in S : \A y \in S : x >= y

\* text[a..b] of Rust: the bytes at offsets a .. b-1
Slice(text, a, b) == SubSeq(text, a + 1, b)

\* The ASCII letters and digits
Alphanumerics ==
    {"a", "b", "c", "d", "e", "f", "g", "h", "i", "j", "k", "l", "m", "n",
      "o", "p", "q", "r", "s", "t", "u", "v", "w", "x", "y", "z", "A", "B",
      "C", "D", "E", "F", "G", "H", "I", "J", "K", "L", "M", "N", "O", "P",
      "Q", "R", "S", "T", "U", "V", "W", "X", "Y", "Z", "0", "1", "2", "3",
      "4", "5", "6", "7", "8", "9"}

\* The two bytes of a letter outside ASCII, such as U+00E9 (0xC3 0xA9): a lead
\* byte and a continuation byte
LeadByte == "xC3"
ContByte == "xA9"

\* char::is_alphanumeric on the characters the model's texts are made of; a
\* byte cast to char is a Latin-1 character: 0xC3 is a letter, 0xA9 is not
is_alphanumeric(c) == c \in Alphanumerics \/ c = LeadByte

\* char::is_whitespace on the characters the model's texts are made of
is_whitespace(c) == c \in {" ", "\n"}

\* analyzer.rs: is_identifier_char
is_identifier_char(c) == is_alphanumeric(c) \/ c = "_" \/ c = ":"

\* str::starts_with
starts_with(s, pat) ==
    /\ Len(pat) <= Len(s)
    /\ \A k \in 1..Len(pat) : s[k] = pat[k]

\* str::find(pat): the offset of the first occurrence of pat in s, or None
find(s, pat) ==
    LET hits == {i \in 0..(Len(s) - Len(pat)) : starts_with(Slice(s, i, Len(s)), pat)}
    IN  IF hits = {} THEN NoneOpt ELSE Some(Min(hits))

\* str::rfind(c): the offset of the last occurrence of the character c, or None
rfind(s, c) ==
    LET hits == {i \in 0..(Len(s) - 1) : s[i + 1] = c}
    IN  IF hits = {} THEN NoneOpt ELSE Some(Max(hits))

\* Option::unwrap_or
unwrap_or(opt, d) == IF opt = NoneOpt THEN d ELSE opt[1]

\* str::trim_start: the string without its leading whitespace
trim_start(s) ==
    LET lead == {i \in 0..Len(s) : \A k \in 1..i : is_whitespace(s[k])}
    IN  Slice(s, Max(lead), Len(s))

RECURSIVE Join(_, _)
\* [String]::join(sep)
Join(parts, sep) ==
    IF Len(parts) = 0 THEN <<>>
    ELSE IF Len(parts) = 1 THEN parts[1]
    ELSE parts[1] \o sep \o Join(Tail(parts), sep)

RECURSIVE Concat(_)
Concat(pieces) == IF pieces = <<>> THEN <<>> ELSE pieces[1] \o Concat(Tail(pieces))

\* ------------------------------------------------------------------------
\* Span locator: PositionTracker (analyzer.rs)
\* ------------------------------------------------------------------------

Span(s, e) == [start |-> s, end |-> e]

\* PositionTracker::new
PositionTracker_new(text) == [text |-> text, current_pos |-> 0]

\* analyzer.rs:81-82
is_valid_start(text, abs_start) ==
    abs_start = 0 \/ ~is_identifier_char(text[abs_start])

\* variant: the byte after an occurrence is not looked at
is_valid_end_NoCheck(text, abs_end) == TRUE

\* analyzer.rs:83-84
is_valid_end(text, abs_end) ==
    abs_end >= Len(text) \/ ~is_identifier_char(text[abs_end + 1])

\* variant: no occurrence is taken to be in a comment
is_in_comment_Never(text, abs_start) == FALSE

\* analyzer.rs:87-89
is_in_comment(text, abs_start) ==
    LET line_start   == unwrap_or(rfind(Slice(text, 0, abs_start), "\n"), 0)
        line_content == Slice(text, line_start, abs_start)
    IN  starts_with(trim_start(line_content), <<"/", "/">>)

\* variant: the tracker resumes after the last span it returned
PositionTracker_after_Advancing(tracker, located) ==
    IF located.spans = <<>> THEN tracker
    ELSE [tracker EXCEPT !.current_pos = located.spans[Len(located.spans)].end]

\* analyzer.rs:65-117: find_symbol_positions takes &mut self and reads
\* current_pos into search_pos; it never assigns current_pos
PositionTracker_after(tracker, located) == tracker

\* The result of a scan that never leaves its while loop
Diverges == [terminates |-> FALSE, spans |-> <<>>]

RECURSIVE find_loop_Overlapping(_, _, _, _)
\* variant: the search resumes one byte after the start of the match
find_loop_Overlapping(text, symbol, search_pos, positions) ==
    LET pos == find(Slice(text, search_pos, Len(text)), symbol)
    IN  IF pos = NoneOpt THEN [terminates |-> TRUE, spans |-> positions]
        ELSE LET abs_start == search_pos + pos[1]
                 abs_end   == abs_start + Len(symbol)
                 valid     == /\ ~is_in_comment(text, abs_start)
                              /\ is_valid_start(text, abs_start)
                              /\ is_valid_end(text, abs_end)
                 next      == IF valid THEN Append(positions, Span(abs_start, abs_end))
                                       ELSE positions
             IN  IF abs_start + 1 > Len(text)
                    THEN [terminates |-> TRUE, spans |-> next]
                    ELSE find_loop_Overlapping(text, symbol, abs_start + 1, next)

RECURSIVE find_loop(_, _, _, _)
\* analyzer.rs:76-108: the while loop of find_symbol_positions
find_loop(text, symbol, search_pos, positions) ==
    LET pos == find(Slice(text, search_pos, Len(text)), symbol)
    IN  IF pos = NoneOpt THEN [terminates |-> TRUE, spans |-> positions]
        ELSE LET abs_start == search_pos + pos[1]
                 abs_end   == abs_start + Len(symbol)
                 valid     == /\ ~is_in_comment(text, abs_start)
                              /\ is_valid_start(text, abs_start)
                              /\ is_valid_end(text, abs_end)
                 next      == IF valid THEN Append(positions, Span(abs_start, abs_end))
                                       ELSE positions
             IN  IF abs_end = search_pos /\ abs_start = search_pos
                    THEN Diverges  \* an empty symbol matches at search_pos for ever
                    ELSE find_loop(text, symbol, abs_end, next)

\* PositionTracker::find_symbol_positions (current_pos is read, never written)
find_symbol_positions(tracker, symbol) ==
    find_loop(tracker.text, symbol, tracker.current_pos, <<>>)

\* ------------------------------------------------------------------------
\* Semantic index: SemanticIndex over rust_lapper's Lapper (symbol.rs)
\* ------------------------------------------------------------------------

\* Interval's ordering: by start, then by stop (the value is not compared)
IntervalLess(a, b) == a.start < b.start \/ (a.start = b.start /\ a.stop < b.stop)

RECURSIVE bsearch_loop(_, _, _, _)
bsearch_loop(key, elems, cursor, length) ==
    IF length <= 1 THEN cursor
    ELSE LET half == length \div 2
             step == IF IntervalLess(elems[cursor + half], key) THEN half ELSE 0
         IN  bsearch_loop(key, elems, cursor + step, length - half)

\* variant: the interval is put after the intervals equal to it
bsearch_seq_ref_AfterEqual(key, elems) ==
    Cardinality({ i \in DOMAIN elems : ~IntervalLess(key, elems[i]) })

\* Lapper::bsearch_seq_ref: where Lapper::insert puts the interval
\* (elems[cursor + half - 1] of the 0-based code is elems[cursor + half] here)
bsearch_seq_ref(key, elems) ==
    IF Len(elems) = 0 \/ ~IntervalLess(elems[1], key) THEN 0
    ELSE IF IntervalLess(elems[Len(elems)], key) THEN Len(elems)
    ELSE bsearch_loop(key, elems, 0, Len(elems))

InsertAt(seq, idx, x) == SubSeq(seq, 1, idx) \o <<x>> \o SubSeq(seq, idx + 1, Len(seq))

\* Lapper::new(vec![])
Lapper_new == [intervals |-> <<>>, max_len |-> 0]

\* Lapper::insert
Lapper_insert(lapper, elem) ==
    LET i_len == IF elem.stop >= elem.start THEN elem.stop - elem.start ELSE 0
    IN  [intervals |-> InsertAt(lapper.intervals, bsearch_seq_ref(elem, lapper.intervals), elem),
         max_len   |-> IF i_len > lapper.max_len THEN i_len ELSE lapper.max_len]

RECURSIVE lower_bound_loop(_, _, _, _)
lower_bound_loop(start, intervals, low, size) ==
    IF size = 0 THEN low
    ELSE LET half       == size \div 2
             other_half == size - half
             probe      == low + half
         IN  lower_bound_loop(start, intervals,
                 IF intervals[probe + 1].start < start THEN low + other_half ELSE low,
                 half)

\* Lapper::lower_bound
lower_bound(start, intervals) == lower_bound_loop(start, intervals, 0, Len(intervals))

\* Interval::overlap
overlap(iv, start, stop) == iv.start < stop /\ iv.stop > start

RECURSIVE IterFind_next(_, _, _, _)
\* IterFind::next: the first interval at or after off that overlaps [start, stop)
IterFind_next(intervals, off, start, stop) ==
    IF off >= Len(intervals) THEN NoneOpt
    ELSE LET iv == intervals[off + 1]
         IN  IF overlap(iv, start, stop) THEN Some(iv)
             ELSE IF iv.start >= stop THEN NoneOpt
             ELSE IterFind_next(intervals, off + 1, start, stop)

\* Lapper::find(start, stop).next()
Lapper_find_first(lapper, start, stop) ==
    LET from == IF start >= lapper.max_len THEN start - lapper.max_len ELSE 0
    IN  IterFind_next(lapper.intervals, lower_bound(from, lapper.intervals), start, stop)

\* SemanticIndex::new
SemanticIndex_new == [symbols |-> <<>>, range_index |-> Lapper_new]

\* The symbol map, HashMap<SymbolId, Symbol>, is the function symbols with
\* the ids 0 .. len-1 stored at 1 .. len
symbol_ids(index) == {i - 1 : i \in DOMAIN index.symbols}
symbol_of(index, id) == index.symbols[id + 1]

\* variant: a Symbol the map already holds is not added again
add_symbol_Dedup(index, symbol) ==
    IF \E i \in DOMAIN index.symbols : index.symbols[i] = symbol THEN index
    ELSE [symbols     |-> Append(index.symbols, symbol),
          range_index |-> Lapper_insert(index.range_index,
                              [start |-> symbol.span.start, stop |-> symbol.span.end,
                               val |-> Len(index.symbols)])]

\* SemanticIndex::add_symbol
add_symbol(index, symbol) ==
    LET id == Len(index.symbols)
    IN  [symbols     |-> Append(index.symbols, symbol),
         range_index |-> Lapper_insert(index.range_index,
                             [start |-> symbol.span.start, stop |-> symbol.span.end, val |-> id])]

\* variant: the query interval is one byte wider than the code's
find_symbol_at_position_Inclusive(index, offset) ==
    LET hit == Lapper_find_first(index.range_index, offset, offset + 2)
    IN  IF hit = NoneOpt THEN NoneOpt ELSE Some(symbol_of(index, hit[1].val))

\* SemanticIndex::find_symbol_at_position
find_symbol_at_position(index, offset) ==
    LET hit == Lapper_find_first(index.range_index, offset, offset + 1)
    IN  IF hit = NoneOpt THEN NoneOpt
        ELSE IF hit[1].val \in symbol_ids(index) THEN Some(symbol_of(index, hit[1].val))
        ELSE NoneOpt

\* SemanticIndex::get_all_ranges: range_index.iter() yields the intervals in
\* the order of the Lapper's vector; an interval without a symbol is left out
get_all_ranges(index) ==
    LET ivs     == index.range_index.intervals
        held(i) == ivs[i].val \in symbol_ids(index)
        kept    == { i \in DOMAIN ivs : held(i) }
        nth(k)  == CHOOSE i \in kept : Cardinality({ j \in kept : j < i }) = k - 1
    IN  [k \in 1..Cardinality(kept) |->
            << Span(ivs[nth(k)].start, ivs[nth(k)].stop), symbol_of(index, ivs[nth(k)].val) >>]

\* ------------------------------------------------------------------------
\* Symbol extractor (analyzer.rs)
\* ------------------------------------------------------------------------

COLONS == <<":", ":">>

\* AbsoluteSymbolPath::to_string: "::" followed by the parts joined by "::"
absolute_to_string(path) == COLONS \o Join(path, COLONS)

\* name.relative_to(&AbsoluteSymbolPath::default()).to_string()
relative_to_root_string(path) == Join(path, COLONS)

\* name.clone().pop().unwrap(): the last part of the path
short_name_of(path) == path[Len(path)]

\* symbol.rs:42-48, DegreeInfo::from(MachineDegree)
DegreeMin == 8
DegreeMax == 10
DegreeInfo_from(degree) == [min |-> Some(DegreeMin), max |-> Some(DegreeMax)]

Symbol(kind, name, span, details) ==
    [kind |-> kind, name |-> name, span |-> span, details |-> details]

RECURSIVE add_symbols(_, _, _)
\* The add_symbol calls of one loop iteration: one Symbol per template, all
\* with the same span
add_symbols(index, span, templates) ==
    IF templates = <<>> THEN index
    ELSE add_symbols(
             add_symbol(index, Symbol(templates[1].kind, templates[1].name, span,
                                      templates[1].details)),
             span, Tail(templates))

RECURSIVE FoldSpans(_, _, _)
\* for span in spans { index.add_symbol(..); .. }
FoldSpans(index, spans, templates) ==
    IF spans = <<>> THEN index
    ELSE FoldSpans(add_symbols(index, spans[1], templates), Tail(spans), templates)

\* variant: the tracker resumes after the last symbol indexed so far
LocateAndEmit_Advancing(acc, tracker, symbol, templates) ==
    IF ~acc.terminates THEN acc
    ELSE LET ends == {acc.index.symbols[i].span.end : i \in DOMAIN acc.index.symbols}
             from == IF ends = {} THEN 0 ELSE Max(ends)
             r    == find_symbol_positions([tracker EXCEPT !.current_pos = from], symbol)
         IN  IF ~r.terminates THEN [terminates |-> FALSE, index |-> acc.index]
             ELSE [terminates |-> TRUE, index |-> FoldSpans(acc.index, r.spans, templates)]

\* One find_symbol_positions call and the loop over its spans; acc is
\* [terminates, index], and a scan that never returns ends the extraction
LocateAndEmit(acc, tracker, symbol, templates) ==
    IF ~acc.terminates THEN acc
    ELSE LET r == find_symbol_positions(tracker, symbol)
         IN  IF ~r.terminates THEN [terminates |-> FALSE, index |-> acc.index]
             ELSE [terminates |-> TRUE, index |-> FoldSpans(acc.index, r.spans, templates)]

Template(kind, name, details) == [kind |-> kind, name |-> name, details |-> details]

machine_details(machine) ==
    [tag |-> "Machine", degree |-> Some(DegreeInfo_from(machine.degree))]

\* analyzer.rs:129-130: the string the text is searched for
machine_search_name(machine) == relative_to_root_string(machine.path)

\* analyzer.rs:134-153: the two Machine symbols of one span
machine_templates(machine) ==
    << Template("Machine", absolute_to_string(machine.path), machine_details(machine)),
       Template("Machine", short_name_of(machine.path), machine_details(machine)) >>

\* analyzer.rs:159-208: Function and Operation give the same detail shape
callable_templates(callable) ==
    << Template("Callable", callable.name,
                [tag |-> "Callable",
                 inputs  |-> Join(callable.inputs, <<",", " ">>),
                 outputs |-> Join(callable.outputs, <<",", " ">>)]) >>

\* analyzer.rs:215-224
register_templates(register) ==
    << Template("Register", register.name,
                [tag |-> "Register", type_info |-> register.ty]) >>

RECURSIVE analyze_callables(_, _, _)
analyze_callables(acc, tracker, callables) ==
    IF callables = <<>> THEN acc
    ELSE analyze_callables(
             LocateAndEmit(acc, tracker, callables[1].name, callable_templates(callables[1])),
             tracker, Tail(callables))

RECURSIVE analyze_registers(_, _, _)
analyze_registers(acc, tracker, registers) ==
    IF registers = <<>> THEN acc
    ELSE analyze_registers(
             LocateAndEmit(acc, tracker, registers[1].name, register_templates(registers[1])),
             tracker, Tail(registers))

\* analyzer.rs:128-226: the body of the loop over asm.machines()
analyze_machine(acc, tracker, machine) ==
    LET located == LocateAndEmit(acc, tracker, machine_search_name(machine),
                                 machine_templates(machine))
    IN  analyze_registers(analyze_callables(located, tracker, machine.callable),
                          tracker, machine.registers)

RECURSIVE analyze_machines(_, _, _)
analyze_machines(acc, tracker, machines) ==
    IF machines = <<>> THEN acc
    ELSE analyze_machines(analyze_machine(acc, tracker, machines[1]), tracker, Tail(machines))

\* analyzer.rs: analyze_asm
analyze_asm(asm, index, source_text) ==
    analyze_machines([terminates |-> TRUE, index |-> index],
                     PositionTracker_new(source_text), asm.machines)

RECURSIVE analyze_names(_, _, _, _)
\* analyzer.rs:234-290: one of the four loops of analyze_pil
analyze_names(acc, tracker, names, kind) ==
    IF names = <<>> THEN acc
    ELSE analyze_names(
             LocateAndEmit(acc, tracker, names[1],
                           << Template(kind, names[1], [tag |-> kind]) >>),
             tracker, Tail(names), kind)

\* analyzer.rs: analyze_pil
analyze_pil(pil, index, source_text) ==
    LET tracker == PositionTracker_new(source_text)
        a0 == [terminates |-> TRUE, index |-> index]
        a1 == analyze_names(a0, tracker, pil.definitions, "Definition")
        a2 == analyze_names(a1, tracker, pil.public_declarations, "Public")
        a3 == analyze_names(a2, tracker, pil.intermediate_columns, "Intermediate")
    IN  analyze_names(a3, tracker, pil.trait_impls, "TraitImpl")

\* analyzer.rs: build_semantic_index (the log messages are not modelled)
build_semantic_index(doc, source_text) ==
    IF doc.variant = "ASM"
    THEN analyze_asm(doc, SemanticIndex_new, source_text)
    ELSE analyze_pil(doc, SemanticIndex_new, source_text)

\* ------------------------------------------------------------------------
\* Inputs of the extractor specification
\* ------------------------------------------------------------------------

N_a  == <<"a">>
N_b  == <<"b">>
N_ab == <<"a", ":", ":", "b">>

\* The pieces the texts are made of: two identifiers, the path separator,
\* the line-comment marker, a blank and a line break
Pieces == { N_a, N_b, COLONS, <<"/", "/">>, <<" ">>, <<"\n">> }

PieceSeqs == UNION { [1..n -> Pieces] : n \in 0..MaxPieces }

Texts == { Concat(ps) : ps \in PieceSeqs }

\* MachineDegree of a machine that declares no degree
NoDegree == [min |-> NoneOpt, max |-> NoneOpt]

\* MachineDegree of a machine that declares the fixed degree 4: min = max
FixedDegree == [min |-> Some(4), max |-> Some(4)]

\* asm_analysis::Machine: its path in the file, degree, callables, registers
Machines ==
    { [path |-> p, degree |-> NoDegree, callable |-> c, registers |-> r] :
        p \in { <<N_a>>, <<N_a, N_b>> },
        c \in { <<>>, <<[name |-> N_b, form |-> "Function",
                        inputs |-> <<N_a>>, outputs |-> <<>>]>> },
        r \in { <<>>, <<[name |-> N_a, ty |-> <<>>]>> } }
    \cup { [path |-> <<N_b>>, degree |-> FixedDegree, callable |-> <<>>, registers |-> <<>>] }

\* AnalysisASMFile::default(): no machine
EmptyASM == [variant |-> "ASM", machines |-> <<>>]

ASMTrees == {EmptyASM} \cup { [variant |-> "ASM", machines |-> <<m>>] : m \in Machines }

PIL(defs, pubs, inters, impls) ==
    [variant |-> "PIL", definitions |-> defs, public_declarations |-> pubs,
     intermediate_columns |-> inters, trait_impls |-> impls]

\* The empty name: find_symbol_positions takes any &str
N_empty == <<>>

PILTrees ==
    { PIL(<<N_a>>, <<>>, <<>>, <<>>),
      PIL(<<N_a, N_b>>, <<>>, <<>>, <<>>),
      PIL(<<N_ab>>, <<N_b>>, <<>>, <<>>),
      PIL(<<>>, <<>>, <<N_a>>, <<N_ab>>),
      PIL(<<N_empty>>, <<>>, <<>>, <<>>) }

Trees == ASMTrees \cup PILTrees

\* The orders in which a HashMap can yield its entries
orderings(seq) ==
    { [i \in DOMAIN seq |-> seq[p[i]]] : p \in Permutations(DOMAIN seq) }

\* The orders in which the loops of analyze_asm / analyze_pil can meet the
\* names of a tree: asm.machines() is sorted and trait_impls is a vector, the
\* definitions, public declarations and intermediate columns are hash maps
tree_orders(doc) ==
    IF doc.variant = "ASM" THEN {doc}
    ELSE { PIL(d, p, i, doc.trait_impls) :
             d \in orderings(doc.definitions),
             p \in orderings(doc.public_declarations),
             i \in orderings(doc.intermediate_columns) }

\* The strings analyze_asm / analyze_pil hand to find_symbol_positions
searched_names(doc) ==
    IF doc.variant = "ASM"
    THEN UNION { {machine_search_name(doc.machines[i])}
                 \cup { doc.machines[i].callable[k].name : k \in DOMAIN doc.machines[i].callable }
                 \cup { doc.machines[i].registers[k].name : k \in DOMAIN doc.machines[i].registers }
                 : i \in DOMAIN doc.machines }
    ELSE { doc.definitions[k] : k \in DOMAIN doc.definitions }
         \cup { doc.public_declarations[k] : k \in DOMAIN doc.public_declarations }
         \cup { doc.intermediate_columns[k] : k \in DOMAIN doc.intermediate_columns }
         \cup { doc.trait_impls[k] : k \in DOMAIN doc.trait_impls }

\* ------------------------------------------------------------------------
\* Inputs of the server specification: the documents the client and the
\* workspace scan send, and what the powdr analyzer returns for them
\* ------------------------------------------------------------------------

\* A version an edit notification carries is 0 .. MaxVersion
MaxVersion == 1

\* The documents are cut down to the characters the locator reacts to: the
\* names, what separates them, the comment marker and the line break.
\* "M X": a machine M with a register X ("machine M { reg X; }")
T_main == <<"M", " ", "X">>

\* "//M\nM": a comment that names M, then the machine M ("// M\nmachine M {}")
T_commented == <<"/", "/", "M", "\n", "M">>

\* "{": the analyzer rejects it
T_malformed == <<"{">>

\* "X X": the register X of the machine M and a use of X; the name M is
\* written where the locator rejects it ("machine M_ { reg X; X <=X= 1; }")
T_repeated == <<"X", " ", "X">>

DocTexts == {T_main, T_commented, T_malformed}

\* The documents of the cache specification
CacheTexts == DocTexts \cup {T_repeated}

N_Main == <<"M">>
N_X    == <<"X">>

Uris == {"file:///a.asm", "file:///b.asm"}

Versions == 0..MaxVersion

\* The version scan_directory gives every file it indexes
ScanVersion == 0

Writers == {"w1", "w2"}
Readers == {"r1"}
NoWriter == "none"

\* uri.path().ends_with(".asm")
ends_with_asm(uri) == uri \in {"file:///a.asm", "file:///b.asm"}

\* parser::parse_asm, the powdr parser and analyzer, on the documents of the
\* model: Ok(tree) is <<tree>>, Err(..) is <<>>
parse_asm(content) ==
    IF content \in {T_main, T_repeated}
    THEN Some([variant |-> "ASM",
               machines |-> <<[path |-> <<N_Main>>, degree |-> NoDegree, callable |-> <<>>,
                               registers |-> <<[name |-> N_X, ty |-> <<>>]>>]>>])
    ELSE IF content = T_commented
    THEN Some([variant |-> "ASM",
               machines |-> <<[path |-> <<N_Main>>, degree |-> NoDegree, callable |-> <<>>,
                               registers |-> <<>>]>>])
    ELSE NoneOpt

\* parser::parse_pil: none of the model's documents is a PIL file
parse_pil(content) == NoneOpt

\* variant: a failed analysis gives the tree of the last document that was
\* analyzed (T_main) instead of the default tree
parse_StaleOnError(content, uri) ==
    LET result == IF ends_with_asm(uri) THEN parse_asm(content) ELSE parse_pil(content)
    IN  IF result /= NoneOpt THEN result[1] ELSE parse_asm(T_main)[1]

\* parser::parse: the analyzed tree of the ParseResult (diagnostics are not
\* modelled); a failed analysis gives the default, empty ASM tree
parse(content, uri) ==
    LET result == IF ends_with_asm(uri) THEN parse_asm(content) ELSE parse_pil(content)
    IN  IF result /= NoneOpt THEN result[1] ELSE EmptyASM

\* variant: the record is built without indexing its text
ParsedDocument_EmptyIndex(uri, content, version) ==
    [analyzed |-> parse(content, uri), text |-> content, version |-> version,
     semantic_index |-> SemanticIndex_new]

\* main.rs:189-202, 218-231, 125-138: the record a handler builds from the
\* text it was sent, before it takes the lock
ParsedDocument(uri, content, version) ==
    LET analyzed_doc == parse(content, uri)
    IN  [analyzed |-> analyzed_doc, text |-> content, version |-> version,
         semantic_index |-> build_semantic_index(analyzed_doc, content).index]

\* The records the handlers can build, computed once
BuiltDocs ==
    [u \in Uris |-> [t \in DocTexts |-> [v \in Versions |-> ParsedDocument(u, t, v)]]]

\* ------------------------------------------------------------------------
\* ProjectCache (main.rs)
\* ------------------------------------------------------------------------

\* ProjectCache::new
ProjectCache_new ==
    [documents |-> [u \in Uris |-> NoneOpt], symbol_locations |-> <<>>]

\* Vec::retain(|(doc_uri, _)| doc_uri != uri)
RECURSIVE retain_other(_, _)
retain_other(locations, uri) ==
    IF locations = <<>> THEN <<>>
    ELSE IF locations[1][1] /= uri
         THEN <<locations[1]>> \o retain_other(Tail(locations), uri)
         ELSE retain_other(Tail(locations), uri)

\* variant: the names left without entries keep their key
remove_document_symbols_NoPrune(table, uri) ==
    [n \in DOMAIN table |-> retain_other(table[n], uri)]

\* variant: the old entries of the document are kept
remove_document_symbols_Nothing(table, uri) == table

\* ProjectCache::remove_document_symbols on the symbol_locations map
remove_document_symbols(table, uri) ==
    LET retained == [n \in DOMAIN table |-> retain_other(table[n], uri)]
        kept     == {n \in DOMAIN table : retained[n] /= <<>>}
    IN  [n \in kept |-> retained[n]]

\* variant: every entry is recorded with the kind Machine
push_entry_NoKind(table, uri, symbol) ==
    IF symbol.name \in DOMAIN table
    THEN [table EXCEPT ![symbol.name] = Append(@, <<uri, "Machine">>)]
    ELSE [n \in DOMAIN table \cup {symbol.name} |->
             IF n = symbol.name THEN << <<uri, "Machine">> >> ELSE table[n]]

\* variant: the entry replaces the list of its name
push_entry_Overwrite(table, uri, symbol) ==
    [n \in DOMAIN table \cup {symbol.name} |->
        IF n = symbol.name THEN << <<uri, symbol.kind>> >> ELSE table[n]]

\* main.rs:54-57: entry(name).or_default().push((uri, kind))
push_entry(table, uri, symbol) ==
    IF symbol.name \in DOMAIN table
    THEN [table EXCEPT ![symbol.name] = Append(@, <<uri, symbol.kind>>)]
    ELSE [n \in DOMAIN table \cup {symbol.name} |->
             IF n = symbol.name THEN << <<uri, symbol.kind>> >> ELSE table[n]]

RECURSIVE push_entries(_, _, _)
\* main.rs:53-58: the loop over the symbol map, in the order `order` of its ids
push_entries(table, uri, ordered) ==
    IF ordered = <<>> THEN table
    ELSE push_entries(push_entry(table, uri, ordered[1]), uri, Tail(ordered))

\* The orders in which HashMap::iter can yield the symbols of an index
iteration_orders(index) ==
    { [i \in DOMAIN index.symbols |-> index.symbols[p[i]]] :
        p \in Permutations(DOMAIN index.symbols) }

\* ProjectCache::get_symbol_locations
get_symbol_locations(table, name) ==
    IF name \in DOMAIN table THEN table[name] ELSE <<>>

\* variant: a record without symbols takes the uri out of the table
stored_record_DropEmpty(old, doc) ==
    IF doc.semantic_index.symbols = <<>> THEN NoneOpt ELSE Some(doc)

\* variant: a record with a lower version does not replace the stored one
stored_record_KeepNewer(old, doc) ==
    IF old /= NoneOpt /\ old[1].version > doc.version THEN old ELSE Some(doc)

\* main.rs:60: documents.insert(uri, doc) replaces the record of uri
stored_record(old, doc) == Some(doc)

\* variant: a reader does not wait for the writer
read_lock_free_Unlocked(w) == TRUE

\* RwLock::read returns when no writer holds the lock
read_lock_free(w) == w = NoWriter

\* RwLock::write returns when no writer and no reader holds the lock
write_lock_free(w, rs) == w = NoWriter /\ rs = {}

\* ------------------------------------------------------------------------
\* Hover provider (hover/mod.rs)
\* ------------------------------------------------------------------------

RECURSIVE split_newline(_)
\* str::split('\n')
split_newline(s) ==
    LET at == find(s, <<"\n">>)
    IN  IF at = NoneOpt THEN <<s>>
        ELSE <<Slice(s, 0, at[1])>> \o split_newline(Slice(s, at[1] + 1, Len(s)))

\* str::lines: the text cut at its line breaks, without a last empty line
lines(s) ==
    LET parts == split_newline(s)
    IN  IF parts[Len(parts)] = <<>> THEN SubSeq(parts, 1, Len(parts) - 1) ELSE parts

\* lines.get(position.line as usize)
lines_get(ls, n) == IF n < Len(ls) THEN Some(ls[n + 1]) ELSE NoneOpt

RECURSIVE chars(_)
\* str::chars: the characters of a string, each as the bytes that encode it
chars(bytes) ==
    IF bytes = <<>> THEN <<>>
    ELSE IF bytes[1] = LeadByte /\ Len(bytes) >= 2
         THEN <<SubSeq(bytes, 1, 2)>> \o chars(SubSeq(bytes, 3, Len(bytes)))
         ELSE << <<bytes[1]>> >> \o chars(Tail(bytes))

\* Iterator::nth
chars_nth(chs, n) == IF n < Len(chs) THEN Some(chs[n + 1]) ELSE NoneOpt

\* str::is_char_boundary: indexing a str at another byte offset panics
is_char_boundary(bytes, k) ==
    \/ k = 0
    \/ k = Len(bytes)
    \/ k < Len(bytes) /\ bytes[k + 1] /= ContByte

\* hover/mod.rs: is_identifier_char, on a character
hover_is_identifier_char(ch) ==
    IF Len(ch) = 1 THEN is_alphanumeric(ch[1]) \/ ch[1] = "_" \/ ch[1] = ":"
    ELSE TRUE  \* the two-byte letter

\* .take_while(|c| is_identifier_char(*c)).count()
take_while_count(chs) ==
    Max({k \in 0..Len(chs) : \A i \in 1..k : hover_is_identifier_char(chs[i])})

\* .rev().take_while(|c| is_identifier_char(*c)).count()
rev_take_while_count(chs) ==
    Max({k \in 0..Len(chs) :
            \A i \in (Len(chs) - k + 1)..Len(chs) : hover_is_identifier_char(chs[i])})

WordNone  == [status |-> "none",  word |-> <<>>, start |-> 0, end |-> 0]
WordPanic == [status |-> "panic", word |-> <<>>, start |-> 0, end |-> 0]

\* HoverProvider::get_word_at_position: None, Some((word, start, end)), or a
\* panic when a str is sliced inside a character
get_word_at_position(source, position) ==
    LET line_opt == lines_get(lines(source), position.line)
    IN  IF line_opt = NoneOpt THEN WordNone
        ELSE
        LET line == line_opt[1]
            c    == position.character
        IN  IF c >= Len(line) THEN WordNone
            ELSE
            LET char_at_position == chars_nth(chars(line), c)
            IN  IF char_at_position = NoneOpt THEN WordNone
                ELSE IF ~hover_is_identifier_char(char_at_position[1]) THEN WordNone
                ELSE IF ~is_char_boundary(line, c) THEN WordPanic
                ELSE
                LET start == rev_take_while_count(chars(Slice(line, 0, c)))
                    end   == take_while_count(chars(Slice(line, c, Len(line))))
                    initial_start == c - start
                    initial_end   == c + end
                IN  IF ~is_char_boundary(line, initial_start)
                        \/ ~is_char_boundary(line, initial_end)
                    THEN WordPanic
                    ELSE [status |-> "word",
                          word   |-> Slice(line, initial_start, initial_end),
                          start  |-> initial_start,
                          end    |-> initial_end]

RECURSIVE split_colons(_)
\* str::split("::")
split_colons(s) ==
    LET at == find(s, COLONS)
    IN  IF at = NoneOpt THEN <<s>>
        ELSE <<Slice(s, 0, at[1])>> \o split_colons(Slice(s, at[1] + 2, Len(s)))

\* parse_absolute_path(&format!("::{}", word)): the parts of the path
parse_absolute_path(word) == IF word = <<>> THEN <<>> ELSE split_colons(word)

\* The first element of a sequence that satisfies Test, as Iterator::find
first_index(seq, Test(_)) ==
    LET hits == {i \in DOMAIN seq : Test(seq[i])}
    IN  IF hits = {} THEN 0 ELSE Min(hits)

\* hover/mod.rs:79-94: the values a machine's degree adds to the token
degree_values(degree) ==
    IF degree.min /= NoneOpt /\ degree.max /= NoneOpt
    THEN IF degree.min = degree.max
         THEN [k \in {"degree"} |-> degree.min[1]]
         ELSE [k \in {"degree_min", "degree_max"} |->
                  IF k = "degree_min" THEN degree.min[1] ELSE degree.max[1]]
    ELSE IF degree.min /= NoneOpt THEN [k \in {"degree"} |-> degree.min[1]]
    ELSE IF degree.max /= NoneOpt THEN [k \in {"degree"} |-> degree.max[1]]
    ELSE <<>>

Token(token_type, name, values) ==
    [token_type |-> token_type, name |-> name, values |-> values]

\* HoverProvider::get_token_from_asm
get_token_from_asm(asm, word) ==
    LET is_path(m)     == m.path = parse_absolute_path(word)
        named(x)       == x.name = word
        has_callable(m) == first_index(m.callable, named) /= 0
        has_register(m) == first_index(m.registers, named) /= 0
        machine_at     == first_index(asm.machines, is_path)
        callable_at    == first_index(asm.machines, has_callable)
        register_at    == first_index(asm.machines, has_register)
    IN  IF machine_at /= 0
        THEN Some(Token("Machine", word, degree_values(asm.machines[machine_at].degree)))
        ELSE IF callable_at /= 0
        THEN Some(Token("Callable", word,
                 [k \in {"symbol"} |->
                     LET cs == asm.machines[callable_at].callable
                     IN  cs[first_index(cs, named)]]))
        ELSE IF register_at /= 0
        THEN Some(Token("Register", word,
                 [k \in {"type"} |->
                     LET regs == asm.machines[register_at].registers
                     IN  regs[first_index(regs, named)].ty]))
        ELSE NoneOpt

\* HoverProvider::get_token_from_pil
get_token_from_pil(pil, word) ==
    LET is_word(n) == n = word
    IN  IF first_index(pil.definitions, is_word) /= 0
        THEN Some(Token("Definition", word, <<>>))
        ELSE IF first_index(pil.public_declarations, is_word) /= 0
        THEN Some(Token("Public", word, <<>>))
        ELSE IF first_index(pil.intermediate_columns, is_word) /= 0
        THEN Some(Token("Intermediate", word, <<>>))
        ELSE IF first_index(pil.trait_impls, is_word) /= 0
        THEN Some(Token("TraitImpl", word, <<>>))
        ELSE NoneOpt

\* The rendered text is a sequence of pieces: the literal parts of the format
\* string, and the values put into it
Lit(s)  == <<"lit", s>>
Str(v)  == <<"str", v>>
Num(v)  == <<"num", v>>

\* HoverProvider::get_hover_content
get_hover_content(token) ==
    IF token.token_type = "Machine"
    THEN LET keys == DOMAIN token.values
             degree_text ==
                 IF "degree" \in keys THEN <<Num(token.values["degree"])>>
                 ELSE IF "degree_min" \in keys /\ "degree_max" \in keys
                 THEN <<Lit(" Min:"), Num(token.values["degree_min"]),
                        Lit(", Max:"), Num(token.values["degree_max"])>>
                 ELSE <<>>
         IN  <<Lit("### Machine\n\n\nName: "), Str(token.name), Lit("\n\n")>>
             \o (IF degree_text /= <<>>
                 THEN <<Lit("Degree: ")>> \o degree_text \o <<Lit("\n")>>
                 ELSE <<>>)
             \o <<Lit("\n\n")>>
    ELSE IF token.token_type = "Callable"
    THEN <<Lit("### Instruction\n\n\nName: "), Str(token.name), Lit("\n\n\n")>>
    ELSE IF token.token_type = "Register"
    THEN <<Lit("### Register\n\n\nName: "), Str(token.name), Lit("\n\n"),
           Lit("Type: "), Str(token.values["type"]), Lit("\n\n"), Lit("\n\n")>>
    ELSE IF token.token_type = "Definition"
    THEN <<Lit("### Definition\n\n\nName: "), Str(token.name), Lit("\n\n\n\n")>>
    ELSE IF token.token_type = "Public"
    THEN <<Lit("### Public\n\n\nName: "), Str(token.name), Lit("\n\n\n\n")>>
    ELSE IF token.token_type = "Intermediate"
    THEN <<Lit("### Intermediate\n\n\nName: "), Str(token.name), Lit("\n\n\n\n")>>
    ELSE <<Lit("### Trait Implementation\n\n\nName: "), Str(token.name), Lit("\n\n\n\n")>>

HoverNone  == [status |-> "none",  token_type |-> "", content |-> <<>>]
HoverPanic == [status |-> "panic", token_type |-> "", content |-> <<>>]

\* HoverProvider::get_token_at_position and get_hover
get_hover(source, doc, position) ==
    LET at == get_word_at_position(source, position)
    IN  IF at.status = "none" THEN HoverNone
        ELSE IF at.status = "panic" THEN HoverPanic
        ELSE LET token == IF doc.variant = "ASM"
                          THEN get_token_from_asm(doc, at.word)
                          ELSE get_token_from_pil(doc, at.word)
             IN  IF token = NoneOpt THEN HoverNone
                 ELSE [status     |-> "some",
                       token_type |-> token[1].token_type,
                       content    |-> get_hover_content(token[1])]

\* Backend::hover: the record of the uri is looked up, then asked
hover(docs, uri, position) ==
    IF docs[uri] = NoneOpt THEN HoverNone
    ELSE get_hover(docs[uri][1].text, docs[uri][1].analyzed, position)

\* ------------------------------------------------------------------------
\* Inputs of the hover specification
\* ------------------------------------------------------------------------

\* A text of the hover specification is at most this many pieces
MaxHoverPieces == 3

\* The pieces of its texts: two names, a letter of two bytes, the comment
\* marker, a blank and a line break
HoverPieces == { N_a, N_b, <<LeadByte, ContByte>>, <<"/", "/">>, <<" ">>, <<"\n">> }

HoverTexts ==
    { Concat(ps) : ps \in UNION { [1..n -> HoverPieces] : n \in 0..MaxHoverPieces } }

\* The analyzed trees of its documents: a machine a of fixed degree with a
\* function b(a), and a machine a of no declared degree with a register b
HoverTrees ==
    { [variant |-> "ASM",
       machines |-> <<[path |-> <<N_a>>, degree |-> FixedDegree,
                       callable |-> <<[name |-> N_b, form |-> "Function",
                                       inputs |-> <<N_a>>, outputs |-> <<>>]>>,
                       registers |-> <<>>]>>],
      [variant |-> "ASM",
       machines |-> <<[path |-> <<N_a>>, degree |-> NoDegree,
                       callable |-> <<>>,
                       registers |-> <<[name |-> N_b, ty |-> <<"T">>]>>]>>] }

\* The document of the hover specification is stored under this uri
HoverUri == "file:///a.asm"

\* ------------------------------------------------------------------------
\* State
\* ------------------------------------------------------------------------

VARIABLES
    \* the server: Backend.project_cache behind its RwLock, and the handlers
    documents,         \* ProjectCache.documents: uri -> Option<ParsedDocument>
    symbol_locations,  \* ProjectCache.symbol_locations: name -> Vec<(uri, kind)>
    writer,            \* the handler that holds the write lock, or NoWriter
    readers,           \* the handlers that hold the read lock
    wpc,               \* where each did_open / did_change / scan handler is
    wreq,              \* the uri and the record that handler has built
    rpc,               \* where each hover handler is
    initialized,       \* whether the initialize request has been answered
    obtained,          \* the uri and the record a hover handler cloned
    \* the extractor: one document is indexed, then queried
    text,              \* the source text handed to build_semantic_index
    analyzed,          \* the analyzed tree handed to build_semantic_index
    phase,             \* "input", "indexed", "diverged", "queried", "rebuilt", "hovered", "added", "enumerated"
    extraction,        \* what build_semantic_index returned: [terminates, index]
    rebuilt,           \* what a second build_semantic_index call returned
    offset,            \* the offset of the last find_symbol_at_position call
    found,             \* its result
    \* the hover provider: one document is stored, then hovered
    position,          \* the uri, line and character of the last hover request
    hover_result,      \* its result: [status, token_type, content]
    \* the semantic index by itself: symbols are added, offsets are queried
    added,             \* the Symbols handed to add_symbol so far, in call order
    ranges,            \* what the last get_all_ranges call returned
    \* the locator by itself: one PositionTracker, a series of scans
    tracker,           \* the PositionTracker: [text, current_pos]
    scans              \* the find_symbol_positions calls so far: [symbol, result]

svars == <<documents, symbol_locations, writer, readers, wpc, wreq, rpc, obtained, initialized>>

ixvars == <<text, analyzed, phase, extraction, rebuilt, offset, found>>

hvars == <<position, hover_result>>

advars == <<added, ranges>>

locvars == <<tracker, scans>>

vars == <<svars, ixvars, hvars, advars, locvars>>

NoRequest == [uri |-> "", doc |-> NoneOpt]

\* The server after main() built the Backend: an empty cache, no handler running
ServerStart ==
    /\ documents = ProjectCache_new.documents
    /\ symbol_locations = ProjectCache_new.symbol_locations
    /\ writer = NoWriter
    /\ readers = {}
    /\ wpc = [h \in Writers |-> "idle"]
    /\ wreq = [h \in Writers |-> NoRequest]
    /\ rpc = [r \in Readers |-> "idle"]
    /\ obtained = [r \in Readers |-> NoRequest]
    /\ initialized = FALSE

\* The extractor before its first call
ExtractorStart ==
    /\ phase = "input"
    /\ extraction = [terminates |-> TRUE, index |-> SemanticIndex_new]
    /\ rebuilt = [terminates |-> TRUE, index |-> SemanticIndex_new]
    /\ offset = 0
    /\ found = NoneOpt

\* The hover provider before the first request
HoverStart ==
    /\ position = [uri |-> "", line |-> 0, character |-> 0]
    /\ hover_result = HoverNone

\* PositionTracker::new(source_text), before the first scan
TrackerStart == tracker = PositionTracker_new(text) /\ scans = <<>>

\* The index by itself before the first add_symbol call
AddStart == added = <<>> /\ ranges = <<>>

\* ------------------------------------------------------------------------
\* The server specification: handlers of the language server
\* ------------------------------------------------------------------------

\* Lines 186-202 of did_open, 215-231 of did_change and 112-138 of
\* scan_directory: the handler parses the text, builds the index and the record
Build(h, uri, content, version) ==
    /\ wpc[h] = "idle"
    /\ wreq' = [wreq EXCEPT ![h] = [uri |-> uri, doc |-> Some(BuiltDocs[uri][content][version])]]
    /\ wpc' = [wpc EXCEPT ![h] = "built"]
    /\ UNCHANGED <<documents, symbol_locations, writer, readers, rpc, obtained, initialized>>

\* Backend::did_open up to its write()
DidOpen(h, uri, content, version) == initialized /\ Build(h, uri, content, version)

\* Backend::did_change up to its write()
DidChange(h, uri, content, version) == initialized /\ Build(h, uri, content, version)

\* Backend::scan_directory for one .asm / .pil file, up to its write(); the
\* scan is the loop of the initialize request, which a client sends first and
\* alone, so the files are indexed one after the other
ScanFile(h, uri, content) ==
    /\ ~initialized
    /\ \A w \in Writers : wpc[w] = "idle"
    /\ Build(h, uri, content, ScanVersion)

\* Backend::initialize returns its InitializeResult
Initialize ==
    /\ ~initialized
    /\ \A w \in Writers : wpc[w] = "idle"
    /\ initialized' = TRUE
    /\ UNCHANGED <<documents, symbol_locations, writer, readers, wpc, wreq, rpc, obtained>>

\* project_cache.write().unwrap() and update_document, line 50:
\* self.remove_document_symbols(&uri)
RemoveDocumentSymbols(h) ==
    /\ wpc[h] = "built"
    /\ write_lock_free(writer, readers)
    /\ writer' = h
    /\ symbol_locations' = remove_document_symbols(symbol_locations, wreq[h].uri)
    /\ wpc' = [wpc EXCEPT ![h] = "removed"]
    /\ UNCHANGED <<documents, readers, wreq, rpc, obtained, initialized>>

\* update_document, lines 53-58: one entry per symbol of the new index
InsertSymbols(h) ==
    /\ wpc[h] = "removed"
    /\ \E ordered \in iteration_orders(wreq[h].doc[1].semantic_index) :
          symbol_locations' = push_entries(symbol_locations, wreq[h].uri, ordered)
    /\ wpc' = [wpc EXCEPT ![h] = "inserted"]
    /\ UNCHANGED <<documents, writer, readers, wreq, rpc, obtained, initialized>>

\* update_document, line 60, and the end of the statement, which drops the
\* write guard
InsertDocument(h) ==
    /\ wpc[h] = "inserted"
    /\ documents' = [documents EXCEPT ![wreq[h].uri] = stored_record(@, wreq[h].doc[1])]
    /\ writer' = NoWriter
    /\ wpc' = [wpc EXCEPT ![h] = "idle"]
    /\ wreq' = [wreq EXCEPT ![h] = NoRequest]
    /\ UNCHANGED <<symbol_locations, readers, rpc, obtained, initialized>>

\* Backend::hover, lines 277-280: read().unwrap() and the clone of the record
HoverRead(r, uri) ==
    /\ initialized
    /\ rpc[r] = "idle"
    /\ read_lock_free(writer)
    /\ readers' = readers \cup {r}
    /\ obtained' = [obtained EXCEPT ![r] = [uri |-> uri, doc |-> documents[uri]]]
    /\ rpc' = [rpc EXCEPT ![r] = "reading"]
    /\ UNCHANGED <<documents, symbol_locations, writer, wpc, wreq, initialized>>

\* Backend::hover, line 283: the read guard is dropped; the answer is computed
\* from the clone and returned
HoverRelease(r) ==
    /\ rpc[r] = "reading"
    /\ readers' = readers \ {r}
    /\ obtained' = [obtained EXCEPT ![r] = NoRequest]
    /\ rpc' = [rpc EXCEPT ![r] = "idle"]
    /\ UNCHANGED <<documents, symbol_locations, writer, wpc, wreq, initialized>>

Init ==
    /\ text = <<>>
    /\ analyzed = EmptyASM
    /\ ServerStart
    /\ ExtractorStart
    /\ HoverStart
    /\ AddStart
    /\ TrackerStart

Next ==
    \/ Initialize /\ UNCHANGED <<ixvars, hvars, advars, locvars>>
    \/ \E h \in Writers, u \in Uris, t \in DocTexts, v \in Versions : DidOpen(h, u, t, v) /\ UNCHANGED <<ixvars, hvars, advars, locvars>>
    \/ \E h \in Writers, u \in Uris, t \in DocTexts, v \in Versions : DidChange(h, u, t, v) /\ UNCHANGED <<ixvars, hvars, advars, locvars>>
    \/ \E h \in Writers, u \in Uris, t \in DocTexts : ScanFile(h, u, t) /\ UNCHANGED <<ixvars, hvars, advars, locvars>>
    \/ \E h \in Writers : RemoveDocumentSymbols(h) /\ UNCHANGED <<ixvars, hvars, advars, locvars>>
    \/ \E h \in Writers : InsertSymbols(h) /\ UNCHANGED <<ixvars, hvars, advars, locvars>>
    \/ \E h \in Writers : InsertDocument(h) /\ UNCHANGED <<ixvars, hvars, advars, locvars>>
    \/ \E r \in Readers, u \in Uris : HoverRead(r, u) /\ UNCHANGED <<ixvars, hvars, advars, locvars>>
    \/ \E r \in Readers : HoverRelease(r) /\ UNCHANGED <<ixvars, hvars, advars, locvars>>

Spec == Init /\ [][Next]_vars

\* ------------------------------------------------------------------------
\* The extractor specification: one document is indexed, then queried
\* ------------------------------------------------------------------------

IndexInit ==
    /\ text \in Texts
    /\ analyzed \in Trees
    /\ ExtractorStart
    /\ ServerStart
    /\ HoverStart
    /\ AddStart
    /\ TrackerStart

\* build_semantic_index(&analyzed, &text); a scan that never returns leaves
\* the caller waiting
Extract ==
    /\ phase = "input"
    /\ \E ordered \in tree_orders(analyzed) :
          /\ extraction' = build_semantic_index(ordered, text)
          /\ phase' = IF extraction'.terminates THEN "indexed" ELSE "diverged"
    /\ UNCHANGED <<text, analyzed, rebuilt, offset, found, svars, hvars, advars, locvars>>

\* build_semantic_index(&analyzed, &text) once more, for the unchanged document
Rebuild ==
    /\ phase = "indexed"
    /\ \E ordered \in tree_orders(analyzed) :
          rebuilt' = build_semantic_index(ordered, text)
    /\ phase' = "rebuilt"
    /\ UNCHANGED <<text, analyzed, extraction, offset, found, svars, hvars, advars, locvars>>

\* index.find_symbol_at_position(o); a query leaves the index as it is, so
\* one query per behaviour reaches every state a series of queries reaches
Query(o) ==
    /\ phase = "indexed"
    /\ extraction.terminates
    /\ offset' = o
    /\ found' = find_symbol_at_position(extraction.index, o)
    /\ phase' = "queried"
    /\ UNCHANGED <<text, analyzed, extraction, rebuilt, svars, hvars, advars, locvars>>

IndexNext ==
    \/ Extract
    \/ Rebuild
    \/ \E o \in 0..Len(text) : Query(o)

IndexSpec == IndexInit /\ [][IndexNext]_vars

\* ------------------------------------------------------------------------
\* The hover specification: one document is stored, then hovered
\* ------------------------------------------------------------------------

HoverInit ==
    /\ text \in HoverTexts
    /\ analyzed \in HoverTrees
    /\ ExtractorStart
    /\ ServerStart
    /\ HoverStart
    /\ AddStart
    /\ TrackerStart

\* The workspace scan stores the document: build_semantic_index, then
\* update_document (no other handler runs, the lock is free)
Open ==
    /\ phase = "input"
    /\ LET built  == build_semantic_index(analyzed, text)
           record == [analyzed |-> analyzed, text |-> text, version |-> ScanVersion,
                      semantic_index |-> built.index]
       IN  /\ built.terminates
           /\ extraction' = built
           /\ documents' = [documents EXCEPT ![HoverUri] = stored_record(@, record)]
           /\ \E ordered \in iteration_orders(built.index) :
                 symbol_locations' =
                     push_entries(remove_document_symbols(symbol_locations, HoverUri),
                                  HoverUri, ordered)
    /\ phase' = "indexed"
    /\ UNCHANGED <<text, analyzed, rebuilt, offset, found, hvars, advars, locvars,
                   writer, readers, wpc, wreq, rpc, obtained, initialized>>

\* Backend::hover for the position (line, character) of the document uri
HoverRequest(uri, line, character) ==
    /\ phase \in {"indexed", "hovered"}
    /\ position' = [uri |-> uri, line |-> line, character |-> character]
    /\ hover_result' = hover(documents, uri, position')
    /\ phase' = "hovered"
    /\ UNCHANGED <<text, analyzed, extraction, rebuilt, offset, found, svars, advars, locvars>>

HoverNext ==
    \/ Open
    \/ \E uri \in Uris, line \in 0..Len(lines(text)), character \in 0..(Len(text) + 1) :
          HoverRequest(uri, line, character)

HoverSpec == HoverInit /\ [][HoverNext]_vars

\* ------------------------------------------------------------------------
\* The symbol index specification: add_symbol calls, then queries
\* ------------------------------------------------------------------------

\* The index a caller builds holds at most MaxSymbols symbols
MaxSymbols == 3

\* The spans of the symbols lie in 0 .. MaxOffset
MaxOffset == 3

\* Span: a non-empty range of byte offsets
SymbolSpans ==
    { sp \in { Span(b, e) : b \in 0..MaxOffset, e \in 0..MaxOffset } : sp.start < sp.end }

\* The Symbols handed to add_symbol
Symbols ==
    { Symbol("Definition", n, sp, [tag |-> "Definition"]) : n \in {N_a, N_b}, sp \in SymbolSpans }

SymbolIndexInit ==
    /\ text = <<>>
    /\ analyzed = EmptyASM
    /\ ExtractorStart
    /\ ServerStart
    /\ HoverStart
    /\ AddStart
    /\ TrackerStart

\* index.add_symbol(symbol); the index is built before it is queried
\* (build_semantic_index owns it until it returns)
AddSymbol(symbol) ==
    /\ phase \in {"input", "added"}
    /\ Len(added) < MaxSymbols
    /\ extraction' = [extraction EXCEPT !.index = add_symbol(@, symbol)]
    /\ added' = Append(added, symbol)
    /\ phase' = "added"
    /\ UNCHANGED <<text, analyzed, rebuilt, offset, found, ranges, svars, hvars, locvars>>

\* index.get_all_ranges(), once the index is built
GetAllRanges ==
    /\ phase \in {"input", "added"}
    /\ ranges' = get_all_ranges(extraction.index)
    /\ phase' = "enumerated"
    /\ UNCHANGED <<text, analyzed, extraction, rebuilt, offset, found, added, svars, hvars, locvars>>

\* index.find_symbol_at_position(o), once the index is built
FindSymbol(o) ==
    /\ phase \in {"input", "added"}
    /\ offset' = o
    /\ found' = find_symbol_at_position(extraction.index, o)
    /\ phase' = "queried"
    /\ UNCHANGED <<text, analyzed, extraction, rebuilt, svars, hvars, advars, locvars>>

SymbolIndexNext ==
    \/ \E symbol \in Symbols : AddSymbol(symbol)
    \/ \E o \in 0..MaxOffset : FindSymbol(o)
    \/ GetAllRanges

SymbolIndexSpec == SymbolIndexInit /\ [][SymbolIndexNext]_vars

\* ------------------------------------------------------------------------
\* The cache specification: update_document calls, one after the other
\* ------------------------------------------------------------------------

\* project_cache.write().unwrap().update_document(uri, doc) by a handler that
\* runs alone: the three steps of the call in one
UpdateDocument(uri, content, version) ==
    /\ LET doc     == ParsedDocument(uri, content, version)
           removed == remove_document_symbols(symbol_locations, uri)
       IN  /\ \E ordered \in iteration_orders(doc.semantic_index) :
                 symbol_locations' = push_entries(removed, uri, ordered)
           /\ documents' = [documents EXCEPT ![uri] = stored_record(@, doc)]
    /\ UNCHANGED <<writer, readers, wpc, wreq, rpc, obtained, initialized>>
    /\ UNCHANGED <<ixvars, hvars, advars, locvars>>

CacheNext ==
    \E uri \in Uris, content \in CacheTexts, version \in Versions :
        UpdateDocument(uri, content, version)

CacheSpec == Init /\ [][CacheNext]_vars

\* ------------------------------------------------------------------------
\* The locator specification: one tracker, a series of scans
\* ------------------------------------------------------------------------

\* A text of the locator specification is at most this many pieces
MaxLocatorPieces == 4

\* One PositionTracker serves at most this many find_symbol_positions calls
MaxScans == 2

\* A name with a blank in it: two of its occurrences can overlap
N_a_a == <<"a", " ", "a">>

\* The names handed to find_symbol_positions
LocatorNames == { N_a, N_b, N_a_a }

\* The pieces of the texts: two names, a name with the blank after it, the
\* comment marker, a blank and a line break
LocatorPieces == { N_a, N_b, <<"a", " ">>, <<"/", "/">>, <<" ">>, <<"\n">> }

LocatorTexts ==
    { Concat(ps) : ps \in UNION { [1..n -> LocatorPieces] : n \in 0..MaxLocatorPieces } }

LocatorInit ==
    /\ text \in LocatorTexts
    /\ analyzed = EmptyASM
    /\ ExtractorStart
    /\ ServerStart
    /\ HoverStart
    /\ AddStart
    /\ TrackerStart

\* tracker.find_symbol_positions(symbol)
Locate(symbol) ==
    /\ Len(scans) < MaxScans
    /\ LET located == find_symbol_positions(tracker, symbol)
       IN  /\ scans' = Append(scans, [symbol |-> symbol, result |-> located])
           /\ tracker' = PositionTracker_after(tracker, located)
    /\ UNCHANGED <<ixvars, svars, hvars, advars>>

LocatorNext == \E symbol \in LocatorNames : Locate(symbol)

LocatorSpec == LocatorInit /\ [][LocatorNext]_vars

\* ------------------------------------------------------------------------
\* Properties of the server specification
\* ------------------------------------------------------------------------

\* A name no document of the model declares
N_unused == <<"Y">>

AllNames == { absolute_to_string(<<N_Main>>), N_Main, N_X, N_unused }

entries(locations) == { locations[i] : i \in DOMAIN locations }

symbols_in(record) ==
    IF record = NoneOpt THEN {}
    ELSE { <<i, record[1].semantic_index.symbols[i]>> : i \in DOMAIN record[1].semantic_index.symbols }

\* How many symbols of the record have the name n and the kind k
symbol_count(record, n, k) ==
    Cardinality({ e \in symbols_in(record) : e[2].name = n /\ e[2].kind = k })

\* How many entries (u, k) the list has
entry_count(locations, u, k) ==
    Cardinality({ i \in DOMAIN locations : locations[i] = <<u, k>> })

Kinds == {"Machine", "Callable", "Register", "Definition", "Public", "Intermediate", "TraitImpl"}

\* The (uri, kind) pairs of the documents now in the table that hold a symbol n
projection(docs, n) ==
    { <<u, k>> \in Uris \X Kinds : symbol_count(docs[u], n, k) > 0 }

\* C1: once the handlers' update_document calls have completed, for every
\* name the set of (uri, kind) pairs get_symbol_locations returns is exactly
\* the set of (uri, kind) of the symbols with that name in the indices of the
\* documents now in the table: nothing stale, nothing missing.
C1_ExactProjection ==
    writer = NoWriter =>
        \A n \in AllNames \cup DOMAIN symbol_locations :
            entries(get_symbol_locations(symbol_locations, n)) = projection(documents, n)

\* Both documents declare M, one of them was replaced and lost X on the way
C1_Witness ==
    /\ writer = NoWriter
    /\ documents["file:///a.asm"] /= NoneOpt
    /\ documents["file:///b.asm"] /= NoneOpt
    /\ documents["file:///a.asm"][1].text = T_commented
    /\ documents["file:///b.asm"][1].text = T_main
    /\ Len(get_symbol_locations(symbol_locations, N_Main)) = 2
    /\ get_symbol_locations(symbol_locations, N_X) = << <<"file:///b.asm", "Register">> >>
    /\ get_symbol_locations(symbol_locations, N_unused) = <<>>

\* The entries of the table attributed to u are those of the record of u
whole_entries(u) ==
    \A n \in AllNames \cup DOMAIN symbol_locations : \A k \in Kinds :
        entry_count(get_symbol_locations(symbol_locations, n), u, k)
            = symbol_count(documents[u], n, k)

\* C2: while a reader holds the read lock, no update_document is between its
\* removal and its insertion: for every uri the table holds exactly the entries
\* of the record of that uri, never the old and the new ones together and never
\* neither of them.
C2_ReadersSeeWholeUpdates ==
    readers /= {} =>
        /\ writer = NoWriter
        /\ \A h \in Writers : wpc[h] \in {"idle", "built"}
        /\ \A u \in Uris : whole_entries(u)

\* A reader holds the lock on a document with entries while an edit of that
\* document, with another text, waits for the write lock
C2_Witness ==
    \E r \in Readers, h \in Writers :
        /\ r \in readers
        /\ wpc[h] = "built"
        /\ wreq[h].uri = obtained[r].uri
        /\ documents[wreq[h].uri] /= NoneOpt
        /\ documents[wreq[h].uri][1].text = T_main
        /\ wreq[h].doc[1].text = T_commented
        /\ get_symbol_locations(symbol_locations, N_X) /= <<>>

\* The record is what one open / change / scan call builds for the uri
is_upsert_result(u, d) ==
    /\ d.text \in DocTexts
    /\ d.version \in Versions
    /\ d.analyzed = parse(d.text, u)
    /\ d.semantic_index = build_semantic_index(d.analyzed, d.text).index

\* C3: the record a hover handler obtains is the record now in the table, and
\* it is the complete result of one upsert: tree and index are those of the
\* record's own text.
C3_ReaderGetsWholeRecord ==
    \A r \in Readers :
        rpc[r] = "reading" =>
            /\ obtained[r].doc = documents[obtained[r].uri]
            /\ obtained[r].doc /= NoneOpt => is_upsert_result(obtained[r].uri, obtained[r].doc[1])

\* A hover handler obtained a record with symbols while an edit of the same
\* document has built its record and waits
C3_Witness ==
    \E r \in Readers, h \in Writers :
        /\ rpc[r] = "reading"
        /\ obtained[r].doc /= NoneOpt
        /\ obtained[r].doc[1].semantic_index.symbols /= <<>>
        /\ wpc[h] = "built"
        /\ wreq[h].uri = obtained[r].uri
        /\ wreq[h].doc /= obtained[r].doc

\* The handler h ends its update_document in this step
completes(h) == wpc[h] = "inserted" /\ wpc'[h] = "idle"

names_in(record) == { e[2].name : e \in symbols_in(record) }

\* C5: when an upsert of u ends whose new index has no symbol named n, no
\* entry of get_symbol_locations(n) is attributed to u, and the symbols named n
\* of the other documents are still listed.
C5_RemovedNameNotListed ==
    [][ \A h \in Writers :
          completes(h) =>
              \A n \in AllNames \ names_in(wreq[h].doc) :
                  LET listed == entries(get_symbol_locations(symbol_locations', n))
                  IN  /\ \A e \in listed : e[1] /= wreq[h].uri
                      /\ \A u \in Uris \ {wreq[h].uri} :
                            \A e \in symbols_in(documents'[u]) :
                                e[2].name = n => <<u, e[2].kind>> \in listed ]_vars

\* The record of u declares X, the record replacing it does not, another
\* document declares X and is the only one listed for X
C5_Witness ==
    \E h \in Writers, u \in Uris :
        /\ wpc[h] = "inserted"
        /\ u /= wreq[h].uri
        /\ N_X \in names_in(documents[wreq[h].uri])
        /\ N_X \notin names_in(wreq[h].doc)
        /\ names_in(wreq[h].doc) /= {}
        /\ N_X \in names_in(documents[u])
        /\ get_symbol_locations(symbol_locations, N_X) = << <<u, "Register">> >>

\* The handler h runs remove_document_symbols in this step
removes(h) == wpc[h] = "built" /\ wpc'[h] = "removed"

\* The entries of the list that are attributed to another uri than u, in order
others_only(locations, u) ==
    LET other(e) == e[1] /= u
    IN  SelectSeq(locations, other)

indexed_symbols == { extraction.index.symbols[i] : i \in DOMAIN extraction.index.symbols }

contains(span, o) == span.start <= o /\ o < span.end

spans_of(located) == { located.spans[i] : i \in DOMAIN located.spans }

\* Every span the locator returns for a name the extractor searches
validated_spans ==
    UNION { spans_of(find_symbol_positions(PositionTracker_new(text), n)) :
            n \in searched_names(analyzed) }

\* C7: for every Symbol S of the index built from a text, the text at S.span
\* is exactly S.name (both Machine symbols of an occurrence included).
C7_SpanTextIsName ==
    phase /= "input" =>
        \A S \in indexed_symbols : Slice(text, S.span.start, S.span.end) = S.name

machines_of(doc) == { doc.machines[i] : i \in DOMAIN doc.machines }

\* C8: for each machine the index holds a Machine symbol at every valid
\* occurrence of its fully-qualified name (the path as the extractor writes it
\* for the search) and at every valid occurrence of its short name, also when
\* the other name form never occurs in the text.
C8_BothNameFormsIndexed ==
    (phase /= "input" /\ analyzed.variant = "ASM") =>
        \A m \in machines_of(analyzed) :
            \A form \in { relative_to_root_string(m.path), short_name_of(m.path) } :
                \A sp \in spans_of(find_symbol_positions(PositionTracker_new(text), form)) :
                    \E S \in indexed_symbols : S.kind = "Machine" /\ S.span = sp

\* C9: a point query returns a Symbol whose span contains the offset when the
\* offset lies in a span the locator validated, and nothing when it lies
\* outside every validated span (such as inside an occurrence on a comment line).
C9_QueryMatchesValidatedSpans ==
    phase = "queried" =>
        IF \E sp \in validated_spans : contains(sp, offset)
        THEN /\ found /= NoneOpt
             /\ contains(found[1].span, offset)
             /\ found[1].span \in validated_spans
        ELSE found = NoneOpt

\* A query inside an occurrence of a searched name on a comment line found
\* nothing, in a document whose index is not empty
C9_Witness ==
    /\ phase = "queried"
    /\ found = NoneOpt
    /\ indexed_symbols /= {}
    /\ \E n \in searched_names(analyzed) : \E p \in 0..Len(text) :
          /\ p + Len(n) <= Len(text)
          /\ Slice(text, p, p + Len(n)) = n
          /\ p <= offset /\ offset < p + Len(n)
          /\ \E q \in 0..p : /\ q + 2 <= p
                             /\ Slice(text, q, q + 2) = <<"/", "/">>
                             /\ \A k \in (q + 1)..p : text[k] /= "\n"
                             /\ (q = 0 \/ text[q] = "\n")

\* The identifier characters as the specification lists them: alphanumeric,
\* underscore and the ':' of qualified names
IdentifierBytes == Alphanumerics \cup {"_", ":"}

\* C10: a span find_symbol_positions returns has no identifier character
\* immediately before it and none immediately after it.
C10_IdentifierBoundary ==
    phase /= "input" =>
        \A sp \in validated_spans :
            /\ sp.start = 0 \/ text[sp.start] \notin IdentifierBytes
            /\ sp.end >= Len(text) \/ text[sp.end + 1] \notin IdentifierBytes

\* The text "ab" searched for "a": the only occurrence is followed by an
\* identifier character, and no span is returned
C10_Witness ==
    /\ phase /= "input"
    /\ text = <<"a", "b">>
    /\ N_a \in searched_names(analyzed)
    /\ find_symbol_positions(PositionTracker_new(text), N_a).spans = <<>>
    /\ indexed_symbols = {}

\* The offset at which the line of offset p begins: after the last line break
\* before p, or the start of the text
line_begin(t, p) ==
    LET breaks == {i \in 1..p : t[i] = "\n"}
    IN  IF breaks = {} THEN 0 ELSE Max(breaks)

\* The line of p, from its beginning to p, is blanks followed by "//"
on_comment_line(t, p) ==
    LET prefix == Slice(t, line_begin(t, p), p)
    IN  \E k \in 0..Len(prefix) :
            /\ \A i \in 1..k : prefix[i] = " "
            /\ k + 2 <= Len(prefix)
            /\ prefix[k + 1] = "/" /\ prefix[k + 2] = "/"

\* The offsets at which n occurs in t
occurrences(t, n) ==
    {p \in 0..(Len(t) - Len(n)) : Slice(t, p, p + Len(n)) = n}

\* The occurrence of n at p has no identifier character on either side
at_word_boundaries(t, n, p) ==
    /\ p = 0 \/ t[p] \notin IdentifierBytes
    /\ p + Len(n) >= Len(t) \/ t[p + Len(n) + 1] \notin IdentifierBytes

\* C11: find_symbol_positions returns no occurrence that lies on a line whose
\* text before the occurrence is, after its leading blanks, a "//" comment, on
\* the first line as on later lines; and it returns every occurrence at word
\* boundaries that is not on such a line, also after a rejected one.
C11_CommentLinesExcluded ==
    phase /= "input" =>
        \A n \in searched_names(analyzed) \ {<<>>} :
            LET returned == spans_of(find_symbol_positions(PositionTracker_new(text), n))
            IN  /\ \A sp \in returned : ~on_comment_line(text, sp.start)
                /\ \A p \in occurrences(text, n) :
                      (at_word_boundaries(text, n, p) /\ ~on_comment_line(text, p))
                          => Span(p, p + Len(n)) \in returned

\* A name occurs in a comment on the first line and again on the next line:
\* only the second occurrence is returned
C11_Witness ==
    /\ phase /= "input"
    /\ \E n \in searched_names(analyzed) \ {<<>>} :
          \E p \in occurrences(text, n), q \in occurrences(text, n) :
              /\ line_begin(text, p) = 0
              /\ on_comment_line(text, p)
              /\ p < q
              /\ find_symbol_positions(PositionTracker_new(text), n).spans
                    = << Span(q, q + Len(n)) >>

\* The (kind, name, span, detail) records of an index with their multiplicity,
\* whatever their ids
record_bag(index) ==
    LET records == { index.symbols[i] : i \in DOMAIN index.symbols }
    IN  [r \in records |-> Cardinality({ i \in DOMAIN index.symbols : index.symbols[i] = r })]

\* C12: a second build_semantic_index of the same tree and the same text
\* returns an index with the same multiset of (kind, name, span, detail)
\* records as the first, whatever the order in which the two runs met the names.
C12_RebuildSameRecords ==
    phase = "rebuilt" =>
        /\ rebuilt.terminates
        /\ record_bag(rebuilt.index) = record_bag(extraction.index)

\* The two runs met the names in different orders: the indices hold the same
\* records under different ids
C12_Witness ==
    /\ phase = "rebuilt"
    /\ Len(extraction.index.symbols) >= 2
    /\ rebuilt.index /= extraction.index
    /\ record_bag(rebuilt.index) = record_bag(extraction.index)

\* The size range a machine declares: absent when it declares no bound,
\* otherwise the bounds it declares
declares_no_degree(degree) == degree.min = NoneOpt /\ degree.max = NoneOpt

\* The detail of a Machine symbol carries the range the machine declares
range_reflects(detail, degree) ==
    IF declares_no_degree(degree)
    THEN detail = NoneOpt \/ (detail[1].min = NoneOpt /\ detail[1].max = NoneOpt)
    ELSE detail /= NoneOpt /\ detail[1].min = degree.min /\ detail[1].max = degree.max

\* C13: the size-range detail of every Machine symbol is the degree its
\* machine declares: the declared bounds, or no range for a machine that
\* declares none.
C13_DegreeReflectsDeclaration ==
    (phase /= "input" /\ analyzed.variant = "ASM") =>
        \A m \in machines_of(analyzed) :
            \A S \in indexed_symbols :
                (S.kind = "Machine"
                    /\ S.name \in {absolute_to_string(m.path), short_name_of(m.path)})
                    => range_reflects(S.details.degree, m.degree)

\* ------------------------------------------------------------------------
\* Properties of the hover specification
\* ------------------------------------------------------------------------

RECURSIVE line_offset(_, _)
\* The byte offset at which line n begins: the lengths of the lines before
\* it, plus one separator byte for each
line_offset(ls, n) == IF n = 0 THEN 0 ELSE Len(ls[n]) + 1 + line_offset(ls, n - 1)

\* The index of the stored document holds a symbol whose span contains the
\* offset of the requested position
position_is_indexed ==
    LET ls == lines(text)
    IN  /\ position.line < Len(ls)
        /\ \E e \in symbols_in(documents[HoverUri]) :
              contains(e[2].span, line_offset(ls, position.line) + position.character)

\* The position is on a byte of one of the document's lines
position_in_line ==
    /\ position.uri = HoverUri
    /\ position.line < Len(lines(text))
    /\ position.character < Len(lines(text)[position.line + 1])

\* C14: a hover request at a position of the stored document returns content
\* exactly when the document's index holds a symbol whose span contains the
\* byte offset of the position (the lengths of the lines before it, plus one
\* each, plus the column); in particular it returns nothing inside an
\* occurrence on a comment line, which the locator rejected.
C14_HoverIffIndexed ==
    (phase = "hovered" /\ position_in_line) =>
        ((hover_result.status = "some") <=> position_is_indexed)

\* The position is one the document does not have: the uri is unknown, the
\* line is beyond the last line, or the column is at or beyond the line's end
position_out_of_bounds ==
    \/ documents[position.uri] = NoneOpt
    \/ position.line >= Len(lines(text))
    \/ position.character >= Len(chars(lines(text)[position.line + 1]))

\* A request for a position the document does not have ends with None
out_of_bounds_is_none ==
    (phase = "hovered" /\ position_out_of_bounds) => hover_result.status = "none"

\* C15: a hover request never fails, whatever the text, the line and the
\* column: no request panics, and a request for an unknown uri, for a line
\* beyond the document's lines or for a column beyond the end of its line
\* ends with the result None.
C15_HoverNeverFails ==
    /\ out_of_bounds_is_none
    /\ phase = "hovered" => hover_result.status /= "panic"

\* The rendered text has the value v among the values put into it
has_str(content, v) == \E i \in DOMAIN content : content[i][1] = "str" /\ content[i][2] = v
has_num(content, v) == \E i \in DOMAIN content : content[i][1] = "num" /\ content[i][2] = v

\* The word the last request was made on
hovered_word == get_word_at_position(text, position).word

\* The rendered text has the detail of the symbol named w: the declared
\* degree bounds of a machine, the type of a register, the parameters of a
\* callable
has_detail(content, token_type, w) ==
    \A m \in machines_of(analyzed) :
        /\ (token_type = "Machine" /\ m.path = <<w>>) =>
              /\ m.degree.min /= NoneOpt => has_num(content, m.degree.min[1])
              /\ m.degree.max /= NoneOpt => has_num(content, m.degree.max[1])
        /\ token_type = "Register" =>
              \A i \in DOMAIN m.registers :
                  m.registers[i].name = w => has_str(content, m.registers[i].ty)
        /\ token_type = "Callable" =>
              \A i \in DOMAIN m.callable :
                  m.callable[i].name = w =>
                      \A k \in DOMAIN m.callable[i].inputs :
                          has_str(content, m.callable[i].inputs[k])

\* C16: whenever hover returns content, the rendered text has the symbol's
\* name and, for a Machine, a Register and a Callable, the symbol's detail.
C16_ContentHasNameAndDetail ==
    (phase = "hovered" /\ hover_result.status = "some") =>
        /\ has_str(hover_result.content, hovered_word)
        /\ has_detail(hover_result.content, hover_result.token_type, hovered_word)

\* The analysis of the text fails (parse_asm / parse_pil return Err)
analysis_fails(content, uri) ==
    (IF ends_with_asm(uri) THEN parse_asm(content) ELSE parse_pil(content)) = NoneOpt

\* The entries of the whole symbol table that are attributed to u
entries_of(locations_by_name, u) ==
    { <<n, i>> \in UNION { {n} \X DOMAIN locations_by_name[n] : n \in DOMAIN locations_by_name } :
          locations_by_name[n][i][1] = u }

\* C17: when the update_document of a text whose analysis failed ends, the
\* record stored for its uri carries the new text, the empty default tree and
\* an index without symbols, and no entry of the symbol table is attributed to
\* the uri any more.
C17_FailedAnalysisStoresEmptyRecord ==
    [][ \A h \in Writers :
          (completes(h) /\ analysis_fails(wreq[h].doc[1].text, wreq[h].uri)) =>
              LET u == wreq[h].uri
              IN  /\ documents'[u] /= NoneOpt
                  /\ documents'[u][1].text = wreq[h].doc[1].text
                  /\ documents'[u][1].analyzed = EmptyASM
                  /\ documents'[u][1].semantic_index.symbols = <<>>
                  /\ documents'[u][1].semantic_index.range_index = Lapper_new
                  /\ entries_of(symbol_locations', u) = {} ]_vars

\* The update_document of a text whose analysis failed is about to end, for a
\* uri whose stored record has symbols
C17_Witness ==
    \E h \in Writers :
        /\ wpc[h] = "inserted"
        /\ analysis_fails(wreq[h].doc[1].text, wreq[h].uri)
        /\ documents[wreq[h].uri] /= NoneOpt
        /\ documents[wreq[h].uri][1].semantic_index.symbols /= <<>>

\* C18: build_semantic_index returns for every text and every analyzed tree,
\* and so does the scan of find_symbol_positions for every name of the tree,
\* the empty name and a name that never occurs included.
C18_IndexingTerminates ==
    phase /= "input" =>
        /\ extraction.terminates
        /\ \A n \in searched_names(analyzed) \cup {N_unused} :
               find_symbol_positions(PositionTracker_new(text), n).terminates

\* ------------------------------------------------------------------------
\* Properties of the symbol index specification
\* ------------------------------------------------------------------------

\* The ids the interval structure holds
interval_ids(index) ==
    { index.range_index.intervals[i].val : i \in DOMAIN index.range_index.intervals }

\* The intervals of the structure that are tagged with id
intervals_of(index, id) ==
    { i \in DOMAIN index.range_index.intervals : index.range_index.intervals[i].val = id }

\* C19: after the add_symbol calls made so far, the ids of the interval
\* structure are the keys of the symbol map, each id tags exactly one interval,
\* the ids are 0 .. n-1 for n calls, the k-th call's Symbol is stored under
\* k-1 with its span as the interval, and a Symbol added twice has two entries.
C19_IdsMatchInsertions ==
    LET index == extraction.index
    IN  /\ interval_ids(index) = symbol_ids(index)
        /\ symbol_ids(index) = 0..(Len(added) - 1)
        /\ Len(index.range_index.intervals) = Len(added)
        /\ \A k \in DOMAIN added :
              /\ symbol_of(index, k - 1) = added[k]
              /\ Cardinality(intervals_of(index, k - 1)) = 1
              /\ \A i \in intervals_of(index, k - 1) :
                    /\ index.range_index.intervals[i].start = added[k].span.start
                    /\ index.range_index.intervals[i].stop = added[k].span.end

\* The same Symbol (same span, same name) was handed to add_symbol twice, after
\* another one
C19_Witness ==
    /\ Len(added) = MaxSymbols
    /\ \E i, k \in DOMAIN added : i < k /\ added[i] = added[k]
    /\ \E i, k \in DOMAIN added : added[i] /= added[k]

\* The calls, by number, whose Symbol's span contains the offset o
containing(o) == { k \in DOMAIN added : contains(added[k].span, o) }

\* C20 as claimed: a query returns the Symbol with the lowest id among those
\* whose span contains the offset.
C20_LowestIdReturned ==
    phase = "queried" =>
        IF containing(offset) = {} THEN found = NoneOpt
        ELSE found = Some(added[Min(containing(offset))])

\* The span a comes before the span b in the order of the interval structure
span_before(a, b) == a.start < b.start \/ (a.start = b.start /\ a.end < b.end)

\* The call whose Symbol is first in the interval structure among those that
\* contain o: the smallest start, then the smallest end, then the latest call
first_in_order(o) ==
    CHOOSE k \in containing(o) :
        \A j \in containing(o) \ {k} :
            \/ span_before(added[k].span, added[j].span)
            \/ added[k].span = added[j].span /\ j < k

\* C20, amended: a query returns the Symbol that is first in the order of the
\* interval structure among those whose span contains the offset (smallest
\* start, then smallest end, and among identical spans the one added last);
\* the result is a function of the insertion sequence and the offset.
C20_FirstInIntervalOrder ==
    phase = "queried" =>
        IF containing(offset) = {} THEN found = NoneOpt
        ELSE found = Some(added[first_in_order(offset)])

\* A query at an offset that two Symbols with the same span and a third,
\* nested one contain, answered with another Symbol than the first one added
C20_Witness ==
    /\ phase = "queried"
    /\ Cardinality(containing(offset)) = MaxSymbols
    /\ \E i, k \in containing(offset) :
          i < k /\ added[i].span = added[k].span /\ added[i] /= added[k]
    /\ \E i, k \in containing(offset) : added[i].span /= added[k].span
    /\ found /= Some(added[Min(containing(offset))])

\* The pairs of the Symbols added so far, in the order of their ids
pairs_by_id == [k \in DOMAIN added |-> <<added[k].span, added[k]>>]

\* How often the pair occurs in the sequence
pair_count(seq, pair) == Cardinality({ i \in DOMAIN seq : seq[i] = pair })

\* get_all_ranges returned one pair for every Symbol added
one_pair_per_symbol ==
    phase = "enumerated" =>
        /\ Len(ranges) = Len(added)
        /\ \A k \in DOMAIN added :
              pair_count(ranges, pairs_by_id[k]) = pair_count(pairs_by_id, pairs_by_id[k])

\* C21: get_all_ranges returns one (span, Symbol) pair for every Symbol added
\* to the index, in the order of the ids.
C21_AllRangesInIdOrder ==
    /\ one_pair_per_symbol
    /\ phase = "enumerated" => ranges = pairs_by_id

\* ------------------------------------------------------------------------
\* Properties of the locator specification
\* ------------------------------------------------------------------------

RECURSIVE candidates(_, _, _)
\* The matches a left-to-right scan meets from the offset from on, each one
\* the first occurrence at or after the end of the one before
candidates(t, n, from) ==
    LET later == { p \in occurrences(t, n) : p >= from }
    IN  IF later = {} THEN <<>>
        ELSE <<Min(later)>> \o candidates(t, n, Min(later) + Len(n))

\* The occurrence of n at p is one the locator accepts
accepted(t, n, p) == ~on_comment_line(t, p) /\ at_word_boundaries(t, n, p)

\* The accepted ones among the matches of the scan, as spans, in order
accepted_candidates(t, n) ==
    LET ok(p)     == accepted(t, n, p)
        starts    == SelectSeq(candidates(t, n, 0), ok)
    IN  [i \in DOMAIN starts |-> Span(starts[i], starts[i] + Len(n))]

\* C22: the spans one find_symbol_positions call returns are in increasing
\* order of start and do not overlap, each lies in the text, is as long as the
\* name and spells the name; they are the accepted ones among the matches of a
\* scan that resumes at the end of every match, accepted or rejected.
C22_SpansOrderedDisjointExact ==
    \A i \in DOMAIN scans :
        LET n   == scans[i].symbol
            sps == scans[i].result.spans
        IN  /\ scans[i].result.terminates
            /\ \A k \in DOMAIN sps :
                  /\ 0 <= sps[k].start /\ sps[k].start <= sps[k].end /\ sps[k].end <= Len(text)
                  /\ sps[k].end - sps[k].start = Len(n)
                  /\ Slice(text, sps[k].start, sps[k].end) = n
            /\ \A k \in 1..(Len(sps) - 1) :
                  sps[k].start < sps[k + 1].start /\ sps[k].end <= sps[k + 1].start
            /\ sps = accepted_candidates(text, n)

\* A scan returned two spans after a match it rejected, and a scan left out
\* an occurrence it would accept because that one overlaps a rejected match
C22_Witness ==
    \E i \in DOMAIN scans, k \in DOMAIN scans :
        LET n == scans[i].symbol
            m == scans[k].symbol
            met(name) == { candidates(text, name, 0)[j] : j \in DOMAIN candidates(text, name, 0) }
        IN  /\ Len(scans[i].result.spans) >= 2
            /\ \E p \in met(n) : ~accepted(text, n, p)
            /\ \E p \in occurrences(text, m) \ met(m) :
                  /\ accepted(text, m, p)
                  /\ \E q \in met(m) : q < p /\ p < q + Len(m) /\ ~accepted(text, m, q)

\* C23: every scan of a tracker returns what a scan of the same name by a
\* fresh tracker of the text returns, whatever was located before it.
C23_ScansIndependent ==
    \A i \in DOMAIN scans :
        scans[i].result = find_symbol_positions(PositionTracker_new(text), scans[i].symbol)

\* Two names were located one after the other, both were found, and the
\* second one has an occurrence before the last match of the first
C23_Witness ==
    /\ Len(scans) = 2
    /\ scans[1].symbol /= scans[2].symbol
    /\ scans[1].result.spans /= <<>>
    /\ scans[2].result.spans /= <<>>
    /\ scans[2].result.spans[1].start
          < scans[1].result.spans[Len(scans[1].result.spans)].end

\* ------------------------------------------------------------------------
\* Further properties of the server specification
\* ------------------------------------------------------------------------

\* C24: in every state of the cache, between the steps of update_document as
\* well, no name of the symbol table maps to an empty list.
C24_NoEmptyLocationList ==
    \A n \in DOMAIN symbol_locations : symbol_locations[n] /= <<>>

\* remove_document_symbols has taken the last entries of a name: the record
\* being replaced has a symbol of that name, and the name is no key any more
C24_Witness ==
    \E h \in Writers :
        /\ wpc[h] = "removed"
        /\ DOMAIN symbol_locations /= {}
        /\ \E n \in names_in(documents[wreq[h].uri]) : n \notin DOMAIN symbol_locations

\* The handler h takes a step of its update_document call
updates(h) == wpc[h] \in {"built", "removed", "inserted"} /\ wpc'[h] /= wpc[h]

\* C25: a step of update_document(u, doc) leaves the record of every other
\* uri as it is, and in every name's list the entries attributed to other
\* uris, in their order.
C25_OtherDocumentsUntouched ==
    [][ \A h \in Writers :
          updates(h) =>
              /\ \A u \in Uris \ {wreq[h].uri} : documents'[u] = documents[u]
              /\ \A n \in AllNames \cup DOMAIN symbol_locations \cup DOMAIN symbol_locations' :
                    others_only(get_symbol_locations(symbol_locations', n), wreq[h].uri)
                        = others_only(get_symbol_locations(symbol_locations, n), wreq[h].uri) ]_vars

\* update_document is about to push the entries of a document one of whose
\* names is listed for another document
C25_Witness ==
    \E h \in Writers :
        /\ wpc[h] = "removed"
        /\ \E u \in Uris \ {wreq[h].uri} : documents[u] /= NoneOpt
        /\ \E n \in names_in(wreq[h].doc) :
              \E e \in entries(get_symbol_locations(symbol_locations, n)) : e[1] /= wreq[h].uri

\* C26: after any series of update_document calls, for every uri u, name n
\* and kind k the list of n holds as many entries (u, k) as the index of u's
\* record holds symbols named n of kind k: one entry per indexed occurrence.
C26_OneEntryPerOccurrence ==
    \A u \in Uris : \A n \in AllNames \cup DOMAIN symbol_locations : \A k \in Kinds :
        Cardinality({ i \in DOMAIN get_symbol_locations(symbol_locations, n) :
                        get_symbol_locations(symbol_locations, n)[i] = <<u, k>> })
            = Cardinality({ e \in symbols_in(documents[u]) : e[2].name = n /\ e[2].kind = k })

\* After several update_document calls a document in which X occurs twice is
\* listed twice for X, next to another document listed once
C26_Witness ==
    /\ \E u \in Uris, v \in Uris :
          /\ u /= v
          /\ documents[u] /= NoneOpt /\ documents[u][1].text = T_repeated
          /\ documents[u][1].version > 0
          /\ documents[v] /= NoneOpt /\ documents[v][1].text = T_main
          /\ entry_count(get_symbol_locations(symbol_locations, N_X), u, "Register") = 2
          /\ entry_count(get_symbol_locations(symbol_locations, N_X), v, "Register") = 1

\* The uris the Document Table has a record for
tracked(docs) == { u \in Uris : docs[u] /= NoneOpt }

\* C27: no step of a scan, did_open, did_change or hover handler takes a
\* record out of the Document Table: the set of tracked uris only grows.
C27_TrackedUrisOnlyGrow ==
    [][ tracked(documents) \subseteq tracked(documents') ]_vars

\* Every uri is tracked and a handler is about to replace a record by one
\* that has no symbols
C27_Witness ==
    \E h \in Writers :
        /\ wpc[h] = "inserted"
        /\ tracked(documents) = Uris
        /\ initialized
        /\ wreq[h].doc[1].semantic_index.symbols = <<>>

====
